---- MODULE Spec2Model ----
(***************************************************************************)
(* Durable background tasks of mts-server: the task registry               *)
(* (BackgroundTaskManager), the per-session TaskHandle, the broadcast      *)
(* fan-out, the reply orchestrator spawned by POST /reply and the          *)
(* subscription bridge spawned by GET /sessions/{id}/subscribe.            *)
(*                                                                         *)
(* Granularity.  Every BackgroundTaskManager method takes the registry     *)
(* lock, touches atomics and returns without awaiting anything else; each  *)
(* is one step.  The orchestrator and the bridge are cut at their await    *)
(* points.  A handle is identified by the number of the register_task call *)
(* that created it; 0 stands for "no entry" / "no task".                   *)
(***************************************************************************)
EXTENDS Integers, Sequences, FiniteSets, TLC

\* ---------------------------------------------------------------- bounds
NumSessions == 1
MaxTasks == 2
MaxSubs == 2
NumCallers == 2
MaxConns == 3
MaxCommands == 3
MaxQueued == 1
MaxHostLen == 3
MaxEvents == 2
MaxPings == 1
MaxClock == 1
\* The two channel capacities are 100 in the source (broadcast::channel(100),
\* mpsc::channel(100)); they are scaled down so that a full private channel
\* and a lagging receiver are reachable.
BroadcastCapacity == 2
ChannelCapacity == 2

Sessions == 1..NumSessions
TaskIds == 1..MaxTasks
SubIds == 1..MaxSubs
Callers == 1..NumCallers
Conns == 1..MaxConns
Commands == 1..MaxCommands

VARIABLES
    \* BackgroundTaskManager / TaskHandle
    tasks,          \* tasks[s]: the handle registered for session s, 0 if none
    ntasks,         \* number of handles created so far
    session,        \* session[t]: the session_id handle t was registered for
    status,         \* TaskHandle.status
    last_activity,  \* TaskHandle.last_activity
    cancel_token,   \* TRUE once the CancellationToken of task t is cancelled
    \* the orchestrator spawned by reply()
    pc,             \* position of orchestrator t
    task_error,     \* the local task_error
    pulled,         \* producer items (Ok or Err) pulled from the agent stream
    pings,          \* heartbeat ticks taken
    exit_path,      \* history: how orchestrator t left setup / the loop
    \* channels
    published,      \* history: every event orchestrator t passed to stream_event
    ring,           \* events accepted by the broadcast channel of handle t
    queued,         \* events buffered in the caller's mpsc channel of task t
    caller_open,    \* the original caller still holds its receiving end
    caller_left,    \* history: events published when the caller went away
    \* subscription bridges
    rx_task,        \* the handle receiver b was subscribed to, 0 if unused
    rx_next,        \* number of ring slots receiver b is past
    bridge_pc,      \* "none", "recv" or "done"
    bridge_got,     \* events bridge b forwarded to its client
    client_open,    \* the client of bridge b is still connected
    rx_latest,      \* history: newest task of the session when b subscribed
    rx_start,       \* history: rx_next as subscribe set it
    sub_point,      \* history: events published when subscribe returned
    sub_late,       \* history: the status was terminal when subscribe returned
    now,            \* the wall clock read by current_timestamp()
    \* calls of BackgroundTaskManager methods in flight, at the grain of the lock
    call_op,        \* the method caller p is in, "idle" if none
    call_session,   \* its session_id argument
    call_pc,        \* "idle", "wait" (at tasks.read()/write().await), "held", "clock"
    call_task,      \* the handle the method found in the map, 0 if none
    call_ts,        \* the value current_timestamp() returned to caller p
    \* the URL allowlist check of the browser routes
    url_host,       \* the host matches_domain_pattern was last applied to
    url_pattern,    \* the pattern it was applied to
    url_match,      \* what it returned
    \* BrowserSessionManager.ws_sender and the /ws/browser connections
    ws_sender,      \* the connection whose sender is stored, 0 for None
    conn_pc,        \* position of handle_websocket for connection c
    conn_rx,        \* the receiving end of connection c's channel still exists
    conn_got,       \* an event was put into connection c's channel
    send_result,    \* what send_event returned to the handler of connection c
    command_queue,  \* number of commands in BrowserSessionManager.command_queue
    \* BrowserServer::send_command
    response_channels,  \* command ids that have an entry in the map
    cmd_pc,         \* position of the send_command call for command k
    cmd_event,      \* a CommandResult waits in the call's response channel
    cmd_result      \* what the call returned

regVars == <<tasks, ntasks, session, status, last_activity, cancel_token>>
orchVars == <<pc, task_error, pulled, pings, exit_path>>
chanVars == <<published, ring, queued, caller_open, caller_left>>
subVars == <<rx_task, rx_next, bridge_pc, bridge_got, client_open, rx_latest, rx_start,
            sub_point, sub_late>>
callVars == <<call_op, call_session, call_pc, call_task, call_ts>>
domainVars == <<url_host, url_pattern, url_match>>
wsVars == <<ws_sender, conn_pc, conn_rx, conn_got, send_result, command_queue>>
cmdVars == <<response_channels, cmd_pc, cmd_event, cmd_result>>
browserVars == <<domainVars, wsVars, cmdVars>>
taskVars == <<regVars, orchVars, chanVars, subVars, now, callVars>>
vars == <<taskVars, browserVars>>

\* ---------------------------------------------------------------- events
\* MessageEvent, with the orchestrator that built it.  n stands for the
\* payload: the number of the producer item the event carries (of the tick
\* for a Ping), so that two events of one task are never equal; reason is ""
\* except on Finish.
Event(ty, t, n, r) == [type |-> ty, src |-> t, n |-> n, reason |-> r]

\* a reason that names the exit path
FinishReasonByPath(t) == IF exit_path[t] = "cancelled" THEN "cancelled" ELSE "stop"

FinishReason(t) == "stop"

FinishEvent(t) == Event("Finish", t, 0, FinishReason(t))

IsFinish(e) == e.type = "Finish"

\* ---------------------------------------------------------------- handle
Terminal(st) == st \in {"Completed", "Error", "Cancelled"}

current_timestamp == now

update_activity(la, t) == [la EXCEPT ![t] = current_timestamp]

set_status(st, t, v) == [st EXCEPT ![t] = v]

\* broadcast::Sender::receiver_count of handle t's broadcaster
receiver_count(t) == Cardinality({b \in SubIds : rx_task[b] = t /\ bridge_pc[b] = "recv"})

\* Senders of handle t's channel: the one inside the registered handle and the
\* clone the orchestrator owns until its future returns.
sender_count(t) ==
    (IF tasks[session[t]] = t THEN 1 ELSE 0) + (IF pc[t] # "done" THEN 1 ELSE 0)

Init ==
    /\ tasks = [s \in Sessions |-> 0]
    /\ ntasks = 0
    /\ session = [t \in TaskIds |-> 1]
    /\ status = [t \in TaskIds |-> "Running"]
    /\ last_activity = [t \in TaskIds |-> 0]
    /\ cancel_token = [t \in TaskIds |-> FALSE]
    /\ pc = [t \in TaskIds |-> "none"]
    /\ task_error = [t \in TaskIds |-> FALSE]
    /\ pulled = [t \in TaskIds |-> 0]
    /\ pings = [t \in TaskIds |-> 0]
    /\ exit_path = [t \in TaskIds |-> "none"]
    /\ published = [t \in TaskIds |-> <<>>]
    /\ ring = [t \in TaskIds |-> <<>>]
    /\ queued = [t \in TaskIds |-> 0]
    /\ caller_open = [t \in TaskIds |-> TRUE]
    /\ caller_left = [t \in TaskIds |-> 0]
    /\ rx_task = [b \in SubIds |-> 0]
    /\ rx_next = [b \in SubIds |-> 0]
    /\ bridge_pc = [b \in SubIds |-> "none"]
    /\ bridge_got = [b \in SubIds |-> <<>>]
    /\ client_open = [b \in SubIds |-> TRUE]
    /\ rx_latest = [b \in SubIds |-> 0]
    /\ rx_start = [b \in SubIds |-> 0]
    /\ sub_point = [b \in SubIds |-> 0]
    /\ sub_late = [b \in SubIds |-> FALSE]
    /\ now = 0
    /\ call_op = [p \in Callers |-> "idle"]
    /\ call_session = [p \in Callers |-> 1]
    /\ call_pc = [p \in Callers |-> "idle"]
    /\ call_task = [p \in Callers |-> 0]
    /\ call_ts = [p \in Callers |-> 0]
    /\ url_host = <<>>
    /\ url_pattern = <<>>
    /\ url_match = FALSE
    /\ ws_sender = 0
    /\ conn_pc = [c \in Conns |-> "none"]
    /\ conn_rx = [c \in Conns |-> FALSE]
    /\ conn_got = [c \in Conns |-> FALSE]
    /\ send_result = [c \in Conns |-> "none"]
    /\ command_queue = 0
    /\ response_channels = {}
    /\ cmd_pc = [k \in Commands |-> "none"]
    /\ cmd_event = [k \in Commands |-> FALSE]
    /\ cmd_result = [k \in Commands |-> "none"]

\* ---------------------------------------------------------------- registry
\* register_task without old_handle.cancel_token.cancel()
register_task_nocancel(s) ==
    LET t == ntasks + 1
    IN  /\ ntasks < MaxTasks
        /\ ntasks' = t
        /\ session' = [session EXCEPT ![t] = s]
        /\ status' = [status EXCEPT ![t] = "Running"]
        /\ last_activity' = [last_activity EXCEPT ![t] = now]
        /\ cancel_token' = cancel_token
        /\ tasks' = [tasks EXCEPT ![s] = t]

\* register_task that keeps an existing entry (entry().or_insert) after
\* cancelling it
register_task_keep(s) ==
    LET t == ntasks + 1
        old == tasks[s]
    IN  /\ ntasks < MaxTasks
        /\ ntasks' = t
        /\ session' = [session EXCEPT ![t] = s]
        /\ status' = [status EXCEPT ![t] = "Running"]
        /\ last_activity' = [last_activity EXCEPT ![t] = now]
        /\ cancel_token' = IF old # 0 THEN [cancel_token EXCEPT ![old] = TRUE]
                           ELSE cancel_token
        /\ tasks' = IF old # 0 THEN tasks ELSE [tasks EXCEPT ![s] = t]

\* register_task: a fresh handle (status Running, activity now); an existing
\* entry is removed and its token cancelled; the new handle is inserted.
register_task(s) ==
    LET t == ntasks + 1
        old == tasks[s]
    IN  /\ ntasks < MaxTasks
        /\ ntasks' = t
        /\ session' = [session EXCEPT ![t] = s]
        /\ status' = set_status(status, t, "Running")
        /\ last_activity' = update_activity(last_activity, t)
        /\ cancel_token' = IF old # 0 THEN [cancel_token EXCEPT ![old] = TRUE]
                           ELSE cancel_token
        /\ tasks' = [tasks EXCEPT ![s] = t]

\* mark_completed that does not refresh the activity
mark_completed_no_refresh(s) ==
    /\ status' = IF tasks[s] # 0 THEN set_status(status, tasks[s], "Completed") ELSE status
    /\ UNCHANGED <<tasks, ntasks, session, cancel_token, last_activity>>

\* mark_completed / mark_error: on the entry of s, set_status and
\* update_activity; nothing without an entry
mark_completed(s) ==
    /\ status' = IF tasks[s] # 0 THEN set_status(status, tasks[s], "Completed") ELSE status
    /\ last_activity' = IF tasks[s] # 0 THEN update_activity(last_activity, tasks[s])
                        ELSE last_activity
    /\ UNCHANGED <<tasks, ntasks, session, cancel_token>>

mark_error(s) ==
    /\ status' = IF tasks[s] # 0 THEN set_status(status, tasks[s], "Error") ELSE status
    /\ last_activity' = IF tasks[s] # 0 THEN update_activity(last_activity, tasks[s])
                        ELSE last_activity
    /\ UNCHANGED <<tasks, ntasks, session, cancel_token>>

\* cancel_task that fires the token and leaves the status alone
cancel_task_token_only(s) ==
    /\ cancel_token' = IF tasks[s] # 0 THEN [cancel_token EXCEPT ![tasks[s]] = TRUE]
                       ELSE cancel_token
    /\ UNCHANGED <<tasks, ntasks, session, status, last_activity>>

\* cancel_task: on the entry of s, cancel_token.cancel() and
\* set_status(Cancelled); nothing without an entry
cancel_task(s) ==
    /\ cancel_token' = IF tasks[s] # 0 THEN [cancel_token EXCEPT ![tasks[s]] = TRUE]
                       ELSE cancel_token
    /\ status' = IF tasks[s] # 0 THEN set_status(status, tasks[s], "Cancelled") ELSE status
    /\ UNCHANGED <<tasks, ntasks, session, last_activity>>

\* cleanup_task without the receiver_count test
cleanup_task_nosubs(s) ==
    /\ tasks' = IF tasks[s] # 0 /\ status[tasks[s]] # "Running"
                THEN [tasks EXCEPT ![s] = 0]
                ELSE tasks
    /\ UNCHANGED <<ntasks, session, status, last_activity, cancel_token>>

\* cleanup_task without the status test
cleanup_task_anystatus(s) ==
    /\ tasks' = IF tasks[s] # 0 /\ receiver_count(tasks[s]) = 0
                THEN [tasks EXCEPT ![s] = 0]
                ELSE tasks
    /\ UNCHANGED <<ntasks, session, status, last_activity, cancel_token>>

cleanup_task(s) ==
    /\ tasks' = IF /\ tasks[s] # 0
                   /\ status[tasks[s]] # "Running"
                   /\ receiver_count(tasks[s]) = 0
                THEN [tasks EXCEPT ![s] = 0]
                ELSE tasks
    /\ UNCHANGED <<ntasks, session, status, last_activity, cancel_token>>

\* get_status whose has_subscribers also counts receivers that were dropped
get_status_ever_subscribed(s) ==
    IF tasks[s] = 0 THEN <<>>
    ELSE <<[status |-> status[tasks[s]],
            last_activity_ms |-> last_activity[tasks[s]],
            has_subscribers |-> \E b \in SubIds : rx_task[b] = tasks[s]]>>

\* BackgroundTaskManager::get_status: an Option, <<>> for None
get_status(s) ==
    IF tasks[s] = 0 THEN <<>>
    ELSE <<[status |-> status[tasks[s]],
            last_activity_ms |-> last_activity[tasks[s]],
            has_subscribers |-> receiver_count(tasks[s]) > 0]>>

\* BackgroundTaskManager::update_activity(session_id)
touch_activity(s) ==
    IF tasks[s] # 0 THEN update_activity(last_activity, tasks[s]) ELSE last_activity

\* ---------------------------------------------------------------- stream_event
\* Where the orchestrator waits while tx.send(..).await finds the channel full.
Blocked(next) ==
    CASE next = "loop" -> "send_loop"
      [] next = "post" -> "send_post"
      [] next = "mark" -> "send_mark"
      [] next = "setup_mark" -> "send_setup_mark"

Resume(p) ==
    CASE p = "send_loop" -> "loop"
      [] p = "send_post" -> "post"
      [] p = "send_mark" -> "mark"
      [] p = "send_setup_mark" -> "setup_mark"

Sending(t) == pc[t] \in {"send_loop", "send_post", "send_mark", "send_setup_mark"}

\* stream_event over a broadcast channel that makes the sender wait while a
\* receiver has a full backlog
stream_event_backpressure(t, ev, next) ==
    /\ published' = [published EXCEPT ![t] = Append(@, ev)]
    /\ ring' = IF receiver_count(t) > 0 THEN [ring EXCEPT ![t] = Append(@, ev)] ELSE ring
    /\ IF \E b \in SubIds : /\ rx_task[b] = t /\ bridge_pc[b] = "recv"
                             /\ Len(ring[t]) - rx_next[b] >= BroadcastCapacity
       THEN /\ queued' = queued
            /\ pc' = [pc EXCEPT ![t] = Blocked(next)]
       ELSE IF ~caller_open[t]
            THEN /\ queued' = queued
                 /\ pc' = [pc EXCEPT ![t] = next]
            ELSE IF queued[t] < ChannelCapacity
                 THEN /\ queued' = [queued EXCEPT ![t] = @ + 1]
                      /\ pc' = [pc EXCEPT ![t] = next]
                 ELSE /\ queued' = queued
                      /\ pc' = [pc EXCEPT ![t] = Blocked(next)]
    /\ UNCHANGED <<caller_open, caller_left>>

\* stream_event whose caller gives up the task when tx.send(..) fails
stream_event_stop(t, ev, next) ==
    /\ published' = [published EXCEPT ![t] = Append(@, ev)]
    /\ ring' = IF receiver_count(t) > 0 THEN [ring EXCEPT ![t] = Append(@, ev)] ELSE ring
    /\ IF ~caller_open[t]
       THEN /\ queued' = queued
            /\ pc' = [pc EXCEPT ![t] = "done"]
       ELSE IF queued[t] < ChannelCapacity
            THEN /\ queued' = [queued EXCEPT ![t] = @ + 1]
                 /\ pc' = [pc EXCEPT ![t] = next]
            ELSE /\ queued' = queued
                 /\ pc' = [pc EXCEPT ![t] = Blocked(next)]
    /\ UNCHANGED <<caller_open, caller_left>>

\* stream_event that broadcasts only what the caller's channel did not take
stream_event_fallback(t, ev, next) ==
    /\ published' = [published EXCEPT ![t] = Append(@, ev)]
    /\ ring' = IF receiver_count(t) > 0 /\ ~caller_open[t]
               THEN [ring EXCEPT ![t] = Append(@, ev)] ELSE ring
    /\ IF ~caller_open[t]
       THEN /\ queued' = queued
            /\ pc' = [pc EXCEPT ![t] = next]
       ELSE IF queued[t] < ChannelCapacity
            THEN /\ queued' = [queued EXCEPT ![t] = @ + 1]
                 /\ pc' = [pc EXCEPT ![t] = next]
            ELSE /\ queued' = queued
                 /\ pc' = [pc EXCEPT ![t] = Blocked(next)]
    /\ UNCHANGED <<caller_open, caller_left>>

\* stream_event: bc.send(event) stores the event only when a receiver exists
\* (its error is ignored); tx.send(..).await completes at once when the mpsc
\* channel has room or its receiver is gone (the error is logged), else the
\* orchestrator waits.
stream_event(t, ev, next) ==
    /\ published' = [published EXCEPT ![t] = Append(@, ev)]
    /\ ring' = IF receiver_count(t) > 0 THEN [ring EXCEPT ![t] = Append(@, ev)] ELSE ring
    /\ IF ~caller_open[t]
       THEN /\ queued' = queued
            /\ pc' = [pc EXCEPT ![t] = next]
       ELSE IF queued[t] < ChannelCapacity
            THEN /\ queued' = [queued EXCEPT ![t] = @ + 1]
                 /\ pc' = [pc EXCEPT ![t] = next]
            ELSE /\ queued' = queued
                 /\ pc' = [pc EXCEPT ![t] = Blocked(next)]
    /\ UNCHANGED <<caller_open, caller_left>>

\* the pending tx.send(..).await completes: room was made or the caller left
SendResume(t) ==
    /\ Sending(t)
    /\ ~caller_open[t] \/ queued[t] < ChannelCapacity
    /\ queued' = IF caller_open[t] THEN [queued EXCEPT ![t] = @ + 1] ELSE queued
    /\ pc' = [pc EXCEPT ![t] = Resume(pc[t])]
    /\ UNCHANGED <<regVars, task_error, pulled, pings, exit_path>>
    /\ UNCHANGED <<published, ring, caller_open, caller_left, subVars, now, callVars, browserVars>>

\* What a still connected caller of POST /reply has read: the channel is FIFO
\* and takes every event in stream_event order, so it is what was published
\* less what is buffered or still waiting to be sent.
CallerGot(t) ==
    SubSeq(published[t], 1,
           Len(published[t]) - queued[t] - (IF Sending(t) THEN 1 ELSE 0))

\* ---------------------------------------------------------------- reply()
\* POST /reply: the mpsc channel to the caller is made, the task is registered
\* and its orchestrator spawned.  open = FALSE is a caller that drops the
\* response stream before the orchestrator first emits.
reply(s, open) ==
    /\ register_task(s)
    /\ pc' = [pc EXCEPT ![ntasks + 1] = "setup"]
    /\ caller_open' = [caller_open EXCEPT ![ntasks + 1] = open]
    /\ UNCHANGED <<task_error, pulled, pings, exit_path, subVars, now, callVars, browserVars>>
    /\ UNCHANGED <<published, ring, queued, caller_left>>

Reply(s) == reply(s, TRUE)

ReplyAbandoned(s) == reply(s, FALSE)

\* the first POST /reply the server ever gets
ReplyFirst(s) ==
    /\ ntasks = 0
    /\ reply(s, TRUE)

\* the same, from a caller that does not stay
ReplyAbandonedFirst(s) ==
    /\ ntasks = 0
    /\ reply(s, FALSE)

\* get_agent, get_session, messages.last() and agent.reply() all succeed
OrchSetupOk(t) ==
    /\ pc[t] = "setup"
    /\ pc' = [pc EXCEPT ![t] = "loop"]
    /\ UNCHANGED <<regVars, task_error, pulled, pings, exit_path, chanVars, subVars, now, callVars, browserVars>>

\* one of the four setup steps fails: Error event, then mark_error, return
OrchSetupFail(t) ==
    /\ pc[t] = "setup"
    /\ stream_event(t, Event("Error", t, 0, ""), "setup_mark")
    /\ exit_path' = [exit_path EXCEPT ![t] = "setup"]
    /\ UNCHANGED <<regVars, task_error, pulled, pings, subVars, now, callVars, browserVars>>

OrchSetupMark(t) ==
    /\ pc[t] = "setup_mark"
    /\ mark_error(session[t])
    /\ pc' = [pc EXCEPT ![t] = "done"]
    /\ UNCHANGED <<task_error, pulled, pings, exit_path, chanVars, subVars, now, callVars, browserVars>>

\* select! branch 1: task_cancel.cancelled()
SelectCancelled(t) ==
    /\ pc[t] = "loop"
    /\ cancel_token[t]
    /\ pc' = [pc EXCEPT ![t] = "post"]
    /\ exit_path' = [exit_path EXCEPT ![t] = "cancelled"]
    /\ UNCHANGED <<regVars, task_error, pulled, pings, chanVars, subVars, now, callVars, browserVars>>

\* select! branch 2: heartbeat_interval.tick().  select! without `biased`
\* polls its branches in random order, so a ready tick may win over a fired
\* token.
SelectHeartbeat(t) ==
    /\ pc[t] = "loop"
    /\ pings[t] < MaxPings
    /\ last_activity' = touch_activity(session[t])
    /\ stream_event(t, Event("Ping", t, pings[t] + 1, ""), "loop")
    /\ pings' = [pings EXCEPT ![t] = @ + 1]
    /\ UNCHANGED <<tasks, ntasks, session, status, cancel_token>>
    /\ UNCHANGED <<task_error, pulled, exit_path, subVars, now, callVars, browserVars>>

\* select! branch 3: timeout(500 ms, stream.next()), by what the agent yields
ProducerMessage(t) ==
    /\ pc[t] = "loop"
    /\ pulled[t] < MaxEvents
    /\ last_activity' = touch_activity(session[t])
    /\ stream_event(t, Event("Message", t, pulled[t] + 1, ""), "loop")
    /\ pulled' = [pulled EXCEPT ![t] = @ + 1]
    /\ UNCHANGED <<tasks, ntasks, session, status, cancel_token>>
    /\ UNCHANGED <<task_error, pings, exit_path, subVars, now, callVars, browserVars>>

ProducerHistoryReplaced(t) ==
    /\ pc[t] = "loop"
    /\ pulled[t] < MaxEvents
    /\ last_activity' = touch_activity(session[t])
    /\ stream_event(t, Event("UpdateConversation", t, pulled[t] + 1, ""), "loop")
    /\ pulled' = [pulled EXCEPT ![t] = @ + 1]
    /\ UNCHANGED <<tasks, ntasks, session, status, cancel_token>>
    /\ UNCHANGED <<task_error, pings, exit_path, subVars, now, callVars, browserVars>>

\* ModelChange and McpNotification are passed on without update_activity
ProducerPassthrough(t) ==
    /\ pc[t] = "loop"
    /\ pulled[t] < MaxEvents
    /\ \E ty \in {"ModelChange", "Notification"} :
          stream_event(t, Event(ty, t, pulled[t] + 1, ""), "loop")
    /\ pulled' = [pulled EXCEPT ![t] = @ + 1]
    /\ UNCHANGED <<regVars, task_error, pings, exit_path, subVars, now, callVars, browserVars>>

\* a producer error after which the loop goes on
ProducerErrorRetry(t) ==
    /\ pc[t] = "loop"
    /\ pulled[t] < MaxEvents
    /\ stream_event(t, Event("Error", t, pulled[t] + 1, ""), "loop")
    /\ task_error' = [task_error EXCEPT ![t] = TRUE]
    /\ pulled' = [pulled EXCEPT ![t] = @ + 1]
    /\ exit_path' = [exit_path EXCEPT ![t] = "error"]
    /\ UNCHANGED <<regVars, pings, subVars, now, callVars, browserVars>>

\* Ok(Some(Err(e))): Error event, task_error = true, break
ProducerError(t) ==
    /\ pc[t] = "loop"
    /\ pulled[t] < MaxEvents
    /\ stream_event(t, Event("Error", t, pulled[t] + 1, ""), "post")
    /\ task_error' = [task_error EXCEPT ![t] = TRUE]
    /\ pulled' = [pulled EXCEPT ![t] = @ + 1]
    /\ exit_path' = [exit_path EXCEPT ![t] = "error"]
    /\ UNCHANGED <<regVars, pings, subVars, now, callVars, browserVars>>

\* Ok(None): the agent stream ended
ProducerEnd(t) ==
    /\ pc[t] = "loop"
    /\ pc' = [pc EXCEPT ![t] = "post"]
    /\ exit_path' = [exit_path EXCEPT ![t] = "exhausted"]
    /\ UNCHANGED <<regVars, task_error, pulled, pings, chanVars, subVars, now, callVars, browserVars>>

\* a timeout that is taken for the end of the agent stream
ProducerTimeoutEnds(t) ==
    /\ pc[t] = "loop"
    /\ pc' = [pc EXCEPT ![t] = "post"]
    /\ UNCHANGED <<regVars, task_error, pulled, pings, exit_path, chanVars, subVars, now, callVars, browserVars>>

\* Err(_): the 500 ms wait elapsed; continue
ProducerTimeout(t) ==
    /\ pc[t] = "loop"
    /\ UNCHANGED vars

\* the Finish event sent from inside the loop, which goes on
OrchFinishInLoop(t) ==
    /\ pc[t] = "post"
    /\ stream_event(t, FinishEvent(t), "loop")
    /\ UNCHANGED <<regVars, task_error, pulled, pings, exit_path, subVars, now, callVars, browserVars>>

\* after the loop: the Finish event
OrchFinish(t) ==
    /\ pc[t] = "post"
    /\ stream_event(t, FinishEvent(t), "mark")
    /\ UNCHANGED <<regVars, task_error, pulled, pings, exit_path, subVars, now, callVars, browserVars>>

\* if task_error { mark_error } else { mark_completed }; the future returns
OrchMark(t) ==
    /\ pc[t] = "mark"
    /\ IF task_error[t] THEN mark_error(session[t]) ELSE mark_completed(session[t])
    /\ pc' = [pc EXCEPT ![t] = "done"]
    /\ UNCHANGED <<task_error, pulled, pings, exit_path, chanVars, subVars, now, callVars, browserVars>>

\* ---------------------------------------------------------------- the original caller
CallerRead(t) ==
    /\ caller_open[t]
    /\ queued[t] > 0
    /\ queued' = [queued EXCEPT ![t] = @ - 1]
    /\ UNCHANGED <<regVars, orchVars, published, ring, caller_open, caller_left, subVars, now, callVars, browserVars>>

\* the client of POST /reply goes away: the SseResponse drops, and with it the
\* receiver and what it had buffered
CallerDisconnect(t) ==
    /\ t <= ntasks
    /\ caller_open[t]
    /\ caller_open' = [caller_open EXCEPT ![t] = FALSE]
    /\ queued' = [queued EXCEPT ![t] = 0]
    /\ caller_left' = [caller_left EXCEPT ![t] = Len(published[t])]
    /\ UNCHANGED <<regVars, orchVars, published, ring, subVars, now, callVars, browserVars>>

\* ---------------------------------------------------------------- clients of the registry
\* newest task registered for session s so far (history; 0 if none)
Latest(s) ==
    LET own == {t \in 1..ntasks : session[t] = s}
    IN  IF own = {} THEN 0 ELSE CHOOSE t \in own : \A u \in own : u <= t

\* subscribe that answers an unknown session with a stream that has ended
subscribe_empty_stream(s, b) ==
    IF tasks[s] = 0
    THEN /\ bridge_pc' = [bridge_pc EXCEPT ![b] = "done"]
         /\ UNCHANGED <<last_activity, rx_task, rx_next, rx_latest, rx_start,
                        sub_point, sub_late>>
    ELSE /\ last_activity' = update_activity(last_activity, tasks[s])
         /\ rx_task' = [rx_task EXCEPT ![b] = tasks[s]]
         /\ rx_next' = [rx_next EXCEPT ![b] = Len(ring[tasks[s]])]
         /\ bridge_pc' = [bridge_pc EXCEPT ![b] = "recv"]
         /\ rx_latest' = [rx_latest EXCEPT ![b] = Latest(s)]
         /\ rx_start' = [rx_start EXCEPT ![b] = Len(ring[tasks[s]])]
         /\ sub_point' = [sub_point EXCEPT ![b] = Len(published[tasks[s]])]
         /\ sub_late' = [sub_late EXCEPT ![b] = Terminal(status[tasks[s]])]

\* subscribe whose receiver starts at the oldest event the channel holds
subscribe_oldest(s, b) ==
    IF tasks[s] = 0
    THEN UNCHANGED <<last_activity, rx_task, rx_next, bridge_pc, rx_latest, rx_start,
                     sub_point, sub_late>>
    ELSE /\ last_activity' = update_activity(last_activity, tasks[s])
         /\ rx_task' = [rx_task EXCEPT ![b] = tasks[s]]
         /\ rx_next' = [rx_next EXCEPT ![b] = 0]
         /\ bridge_pc' = [bridge_pc EXCEPT ![b] = "recv"]
         /\ rx_latest' = [rx_latest EXCEPT ![b] = Latest(s)]
         /\ rx_start' = [rx_start EXCEPT ![b] = 0]
         /\ sub_point' = [sub_point EXCEPT ![b] = Len(published[tasks[s]])]
         /\ sub_late' = [sub_late EXCEPT ![b] = Terminal(status[tasks[s]])]

\* BackgroundTaskManager::subscribe: None for an unknown session, else the
\* activity is refreshed and a receiver positioned at the channel's tail is made.
subscribe(s, b) ==
    IF tasks[s] = 0
    THEN UNCHANGED <<last_activity, rx_task, rx_next, bridge_pc, rx_latest, rx_start,
                     sub_point, sub_late>>
    ELSE /\ last_activity' = update_activity(last_activity, tasks[s])
         /\ rx_task' = [rx_task EXCEPT ![b] = tasks[s]]
         /\ rx_next' = [rx_next EXCEPT ![b] = Len(ring[tasks[s]])]
         /\ bridge_pc' = [bridge_pc EXCEPT ![b] = "recv"]
         /\ rx_latest' = [rx_latest EXCEPT ![b] = Latest(s)]
         /\ rx_start' = [rx_start EXCEPT ![b] = Len(ring[tasks[s]])]
         /\ sub_point' = [sub_point EXCEPT ![b] = Len(published[tasks[s]])]
         /\ sub_late' = [sub_late EXCEPT ![b] = Terminal(status[tasks[s]])]

\* GET /sessions/{id}/subscribe: 404, or the bridge is spawned on receiver b
Subscribe(s) ==
    \E b \in SubIds :
        /\ bridge_pc[b] = "none"
        /\ \A c \in SubIds : c < b => bridge_pc[c] # "none"
        /\ subscribe(s, b)
        /\ UNCHANGED <<tasks, ntasks, session, status, cancel_token>>
        /\ UNCHANGED <<orchVars, chanVars, bridge_got, client_open, now, callVars, browserVars>>

\* the first GET /sessions/{id}/subscribe the server ever gets
SubscribeFirst(s) ==
    /\ \A b \in SubIds : bridge_pc[b] = "none"
    /\ Subscribe(s)

\* the HTTP status GET /sessions/{id}/subscribe answers with
subscribe_to_session(s) == IF tasks[s] = 0 THEN 404 ELSE 200

\* the HTTP status GET /sessions/{id}/task-status answers with
get_task_status(s) == IF get_status(s) = <<>> THEN 404 ELSE 200

\* GET /sessions/{id}/task-status: a read under the registry's read lock
GetTaskStatus(s) == UNCHANGED vars

\* the bool cancel_task returns
cancel_task_returns(s) == tasks[s] # 0

\* POST /sessions/{id}/cancel-task
Cancel(s) ==
    /\ cancel_task(s)
    /\ UNCHANGED <<orchVars, chanVars, subVars, now, callVars, browserVars>>

\* cleanup_task, called by whoever owns the registry
Cleanup(s) ==
    /\ cleanup_task(s)
    /\ UNCHANGED <<orchVars, chanVars, subVars, now, callVars, browserVars>>

\* ---------------------------------------------------------------- subscription bridge
\* a bridge that treats a lagged signal as the end of its stream
BridgeLaggedEnds(b) ==
    /\ bridge_pc[b] = "recv"
    /\ rx_next[b] < Len(ring[rx_task[b]]) - BroadcastCapacity
    /\ bridge_pc' = [bridge_pc EXCEPT ![b] = "done"]
    /\ UNCHANGED <<regVars, orchVars, chanVars, now, callVars, browserVars>>
    /\ UNCHANGED <<rx_task, rx_next, bridge_got, client_open, rx_latest, rx_start, sub_point,
                 sub_late>>

\* receiver.recv().await of bridge b and what the bridge does with the result
BridgeLagged(b) ==
    /\ bridge_pc[b] = "recv"
    /\ rx_next[b] < Len(ring[rx_task[b]]) - BroadcastCapacity
    /\ rx_next' = [rx_next EXCEPT ![b] = Len(ring[rx_task[b]]) - BroadcastCapacity]
    /\ UNCHANGED <<regVars, orchVars, chanVars, now, callVars, browserVars>>
    /\ UNCHANGED <<rx_task, bridge_pc, bridge_got, client_open, rx_latest, rx_start, sub_point,
                 sub_late>>

\* a bridge that cancels the task when its client rejects a send
BridgeEventCancels(b) ==
    LET t == rx_task[b]
        e == ring[t][rx_next[b] + 1]
    IN  /\ bridge_pc[b] = "recv"
        /\ rx_next[b] >= Len(ring[t]) - BroadcastCapacity
        /\ rx_next[b] < Len(ring[t])
        /\ rx_next' = [rx_next EXCEPT ![b] = @ + 1]
        /\ bridge_got' = IF client_open[b] THEN [bridge_got EXCEPT ![b] = Append(@, e)]
                         ELSE bridge_got
        /\ bridge_pc' = IF ~client_open[b] \/ IsFinish(e)
                        THEN [bridge_pc EXCEPT ![b] = "done"]
                        ELSE bridge_pc
        /\ cancel_token' = IF client_open[b] THEN cancel_token
                           ELSE [cancel_token EXCEPT ![t] = TRUE]
        /\ UNCHANGED <<tasks, ntasks, session, status, last_activity>>
        /\ UNCHANGED <<orchVars, chanVars, now, callVars, browserVars>>
        /\ UNCHANGED <<rx_task, client_open, rx_latest, rx_start, sub_point, sub_late>>

\* a receiver that hands out the newest event of the channel
BridgeEventNewest(b) ==
    LET t == rx_task[b]
        e == ring[t][Len(ring[t])]
    IN  /\ bridge_pc[b] = "recv"
        /\ rx_next[b] >= Len(ring[t]) - BroadcastCapacity
        /\ rx_next[b] < Len(ring[t])
        /\ rx_next' = [rx_next EXCEPT ![b] = @ + 1]
        /\ bridge_got' = IF client_open[b] THEN [bridge_got EXCEPT ![b] = Append(@, e)]
                         ELSE bridge_got
        /\ bridge_pc' = IF ~client_open[b] \/ IsFinish(e)
                        THEN [bridge_pc EXCEPT ![b] = "done"]
                        ELSE bridge_pc
        /\ UNCHANGED <<regVars, orchVars, chanVars, now, callVars, browserVars>>
        /\ UNCHANGED <<rx_task, client_open, rx_latest, rx_start, sub_point, sub_late>>

\* a bridge that looks for Finish first and leaves without forwarding it
BridgeEventFinishFirst(b) ==
    LET t == rx_task[b]
        e == ring[t][rx_next[b] + 1]
    IN  /\ bridge_pc[b] = "recv"
        /\ rx_next[b] >= Len(ring[t]) - BroadcastCapacity
        /\ rx_next[b] < Len(ring[t])
        /\ rx_next' = [rx_next EXCEPT ![b] = @ + 1]
        /\ bridge_got' = IF client_open[b] /\ ~IsFinish(e)
                         THEN [bridge_got EXCEPT ![b] = Append(@, e)]
                         ELSE bridge_got
        /\ bridge_pc' = IF ~client_open[b] \/ IsFinish(e)
                        THEN [bridge_pc EXCEPT ![b] = "done"]
                        ELSE bridge_pc
        /\ UNCHANGED <<regVars, orchVars, chanVars, now, callVars, browserVars>>
        /\ UNCHANGED <<rx_task, client_open, rx_latest, rx_start, sub_point, sub_late>>

\* Ok(event): forward it; leave when the client is gone or the event is Finish
BridgeEvent(b) ==
    LET t == rx_task[b]
        e == ring[t][rx_next[b] + 1]
    IN  /\ bridge_pc[b] = "recv"
        /\ rx_next[b] >= Len(ring[t]) - BroadcastCapacity
        /\ rx_next[b] < Len(ring[t])
        /\ rx_next' = [rx_next EXCEPT ![b] = @ + 1]
        /\ bridge_got' = IF client_open[b] THEN [bridge_got EXCEPT ![b] = Append(@, e)]
                         ELSE bridge_got
        /\ bridge_pc' = IF ~client_open[b] \/ IsFinish(e)
                        THEN [bridge_pc EXCEPT ![b] = "done"]
                        ELSE bridge_pc
        /\ UNCHANGED <<regVars, orchVars, chanVars, now, callVars, browserVars>>
        /\ UNCHANGED <<rx_task, client_open, rx_latest, rx_start, sub_point,
                 sub_late>>

\* Err(Closed): nothing left to read and every sender is dropped
BridgeClosed(b) ==
    /\ bridge_pc[b] = "recv"
    /\ rx_next[b] = Len(ring[rx_task[b]])
    /\ sender_count(rx_task[b]) = 0
    /\ bridge_pc' = [bridge_pc EXCEPT ![b] = "done"]
    /\ UNCHANGED <<regVars, orchVars, chanVars, now, callVars, browserVars>>
    /\ UNCHANGED <<rx_task, rx_next, bridge_got, client_open, rx_latest, rx_start, sub_point,
                 sub_late>>

\* the client of a subscribe stream goes away
ClientDisconnect(b) ==
    /\ bridge_pc[b] = "recv"
    /\ client_open[b]
    /\ client_open' = [client_open EXCEPT ![b] = FALSE]
    /\ UNCHANGED <<regVars, orchVars, chanVars, now, callVars, browserVars>>
    /\ UNCHANGED <<rx_task, rx_next, bridge_pc, bridge_got, rx_latest, rx_start, sub_point,
                 sub_late>>

\* ---------------------------------------------------------------- registry calls at the grain of the lock
\* The methods of BackgroundTaskManager as their callers run them: await the
\* RwLock, then the body under the guard, the guard dropped when the method
\* returns.  TaskHandle::update_activity is two steps, current_timestamp()
\* and the store of its value.
WriteOps == {"register_task", "cleanup_task"}
StampOps == {"update_activity", "subscribe", "mark_completed", "mark_error"}
ReadOnlyOps == {"get_status", "is_running", "running_sessions"}
Ops == WriteOps \cup StampOps \cup ReadOnlyOps \cup {"cancel_task"}

\* callers holding a guard of tasks.read() / the guard of tasks.write()
ReadHeld == {p \in Callers : call_pc[p] \in {"held", "clock"} /\ call_op[p] \notin WriteOps}
WriteHeld == {p \in Callers : call_pc[p] = "held" /\ call_op[p] \in WriteOps}

InFlight(op) == Cardinality({p \in Callers : call_op[p] = op})
FreeSlots == Cardinality({b \in SubIds : bridge_pc[b] = "none"})

\* the guard is dropped and the method returns
Return(p) ==
    /\ call_op' = [call_op EXCEPT ![p] = "idle"]
    /\ call_pc' = [call_pc EXCEPT ![p] = "idle"]
    /\ call_task' = [call_task EXCEPT ![p] = 0]
    /\ call_ts' = [call_ts EXCEPT ![p] = 0]
    /\ UNCHANGED call_session

\* a method is called and reaches tasks.read().await / tasks.write().await;
\* register_task has built its TaskHandle (current_timestamp()) before that
CallBegin(p) ==
    /\ call_pc[p] = "idle"
    /\ \E op \in Ops, s \in Sessions :
          /\ op = "register_task" => ntasks + InFlight(op) < MaxTasks
          /\ op = "subscribe" => InFlight(op) < FreeSlots
          /\ call_op' = [call_op EXCEPT ![p] = op]
          /\ call_session' = [call_session EXCEPT ![p] = s]
          /\ call_ts' = [call_ts EXCEPT ![p] = IF op = "register_task"
                                               THEN current_timestamp ELSE 0]
    /\ call_pc' = [call_pc EXCEPT ![p] = "wait"]
    /\ UNCHANGED <<regVars, orchVars, chanVars, subVars, now, call_task, browserVars>>

\* the lock is granted: a read guard beside other read guards, the write
\* guard alone
CallAcquire(p) ==
    /\ call_pc[p] = "wait"
    /\ WriteHeld = {}
    /\ call_op[p] \in WriteOps => ReadHeld = {}
    /\ call_pc' = [call_pc EXCEPT ![p] = "held"]
    /\ UNCHANGED <<regVars, orchVars, chanVars, subVars, now, browserVars>>
    /\ UNCHANGED <<call_op, call_session, call_task, call_ts>>

\* tasks.get(session_id) of a method that ends in handle.update_activity():
\* set_status for the two marks, then current_timestamp()
CallLookup(p) ==
    LET h == tasks[call_session[p]]
    IN  /\ call_pc[p] = "held"
        /\ call_op[p] \in StampOps
        /\ IF h = 0
           THEN /\ Return(p)
                /\ UNCHANGED status
           ELSE /\ status' = CASE call_op[p] = "mark_completed" -> set_status(status, h, "Completed")
                               [] call_op[p] = "mark_error" -> set_status(status, h, "Error")
                               [] OTHER -> status
                /\ call_task' = [call_task EXCEPT ![p] = h]
                /\ call_ts' = [call_ts EXCEPT ![p] = current_timestamp]
                /\ call_pc' = [call_pc EXCEPT ![p] = "clock"]
                /\ UNCHANGED <<call_op, call_session>>
        /\ UNCHANGED <<tasks, ntasks, session, last_activity, cancel_token>>
        /\ UNCHANGED <<orchVars, chanVars, subVars, now, browserVars>>

\* the store of handle.update_activity(); subscribe then makes its receiver
\* with handle.broadcaster.subscribe()
CallStore(p) ==
    LET h == call_task[p]
        s == call_session[p]
    IN  /\ call_pc[p] = "clock"
        /\ last_activity' = [last_activity EXCEPT ![h] = call_ts[p]]
        /\ IF call_op[p] = "subscribe"
           THEN \E b \in SubIds :
                   /\ bridge_pc[b] = "none"
                   /\ \A c \in SubIds : c < b => bridge_pc[c] # "none"
                   /\ rx_task' = [rx_task EXCEPT ![b] = h]
                   /\ rx_next' = [rx_next EXCEPT ![b] = Len(ring[h])]
                   /\ bridge_pc' = [bridge_pc EXCEPT ![b] = "recv"]
                   /\ rx_latest' = [rx_latest EXCEPT ![b] = Latest(s)]
                   /\ rx_start' = [rx_start EXCEPT ![b] = Len(ring[h])]
                   /\ sub_point' = [sub_point EXCEPT ![b] = Len(published[h])]
                   /\ sub_late' = [sub_late EXCEPT ![b] = Terminal(status[h])]
           ELSE UNCHANGED <<rx_task, rx_next, bridge_pc, rx_latest, rx_start, sub_point,
                            sub_late>>
        /\ Return(p)
        /\ UNCHANGED <<tasks, ntasks, session, status, cancel_token>>
        /\ UNCHANGED <<orchVars, chanVars, bridge_got, client_open, now, browserVars>>

\* get_status, is_running, running_sessions: loads under the read guard
CallRead(p) ==
    /\ call_pc[p] = "held"
    /\ call_op[p] \in ReadOnlyOps
    /\ Return(p)
    /\ UNCHANGED <<regVars, orchVars, chanVars, subVars, now, browserVars>>

\* a cancel_task that, with the guard held, waits for the orchestrator it
\* cancelled to end
CallCancelTaskJoins(p) ==
    /\ call_pc[p] = "held"
    /\ call_op[p] = "cancel_task"
    /\ tasks[call_session[p]] # 0 => pc[tasks[call_session[p]]] = "done"
    /\ cancel_task(call_session[p])
    /\ Return(p)
    /\ UNCHANGED <<orchVars, chanVars, subVars, now, browserVars>>

\* the body of cancel_task under the read guard
CallCancelTask(p) ==
    /\ call_pc[p] = "held"
    /\ call_op[p] = "cancel_task"
    /\ cancel_task(call_session[p])
    /\ Return(p)
    /\ UNCHANGED <<orchVars, chanVars, subVars, now, browserVars>>

\* the body of register_task under the write guard: the handle built before
\* the lock replaces the entry, whose token is cancelled
CallRegisterTask(p) ==
    LET t == ntasks + 1
        s == call_session[p]
        old == tasks[s]
    IN  /\ call_pc[p] = "held"
        /\ call_op[p] = "register_task"
        /\ ntasks' = t
        /\ session' = [session EXCEPT ![t] = s]
        /\ status' = set_status(status, t, "Running")
        /\ last_activity' = [last_activity EXCEPT ![t] = call_ts[p]]
        /\ cancel_token' = IF old # 0 THEN [cancel_token EXCEPT ![old] = TRUE]
                           ELSE cancel_token
        /\ tasks' = [tasks EXCEPT ![s] = t]
        /\ Return(p)
        /\ UNCHANGED <<orchVars, chanVars, subVars, now, browserVars>>

\* the body of cleanup_task under the write guard
CallCleanupTask(p) ==
    /\ call_pc[p] = "held"
    /\ call_op[p] = "cleanup_task"
    /\ cleanup_task(call_session[p])
    /\ Return(p)
    /\ UNCHANGED <<orchVars, chanVars, subVars, now, browserVars>>

\* what caller p does next with the lock in hand
CallBody(p) ==
    \/ CallLookup(p)
    \/ CallStore(p)
    \/ CallRead(p)
    \/ CallCancelTask(p)
    \/ CallRegisterTask(p)
    \/ CallCleanupTask(p)

\* ---------------------------------------------------------------- URL allowlist (routes/browser.rs)
\* Strings are sequences of characters; host names are made of two letters
\* and the dot, with no empty label.
Letters == {"a", "b"}
Strings(n) == UNION {[1..k -> Letters \cup {"."}] : k \in 1..n}

Hosts ==
    {h \in Strings(MaxHostLen) :
        /\ h[1] # "."
        /\ h[Len(h)] # "."
        /\ \A i \in 1..(Len(h) - 1) : ~(h[i] = "." /\ h[i + 1] = ".")}

\* the allowlist entries: a host, or "*." followed by a host
Patterns == Hosts \cup {<<"*", ".">> \o h : h \in Hosts}

\* str::starts_with and str::ends_with
starts_with(s, p) == Len(p) <= Len(s) /\ SubSeq(s, 1, Len(p)) = p
ends_with(s, p) == Len(p) <= Len(s) /\ SubSeq(s, Len(s) - Len(p) + 1, Len(s)) = p

\* fn matches_domain_pattern(host, pattern): equal, or the pattern starts
\* with "*." and the host ends with, or is, what follows the "*."
matches_domain_pattern(host, pattern) ==
    IF pattern = host THEN TRUE
    ELSE IF starts_with(pattern, <<"*", ".">>)
         THEN LET suffix == SubSeq(pattern, 3, Len(pattern))
              IN  ends_with(host, suffix) \/ host = suffix
         ELSE FALSE

\* is_url_allowed applies the function to the URL's host and an entry of
\* the allowlist
MatchesDomainPattern ==
    /\ \E host \in Hosts, pattern \in Patterns :
          /\ url_host' = host
          /\ url_pattern' = pattern
          /\ url_match' = matches_domain_pattern(host, pattern)
    /\ UNCHANGED <<taskVars, wsVars, cmdVars>>

\* ---------------------------------------------------------------- /ws/browser (routes/browser.rs)
\* BrowserSessionManager::send_event: Ok through the stored sender, an error
\* when none is stored or its receiver is gone
send_event ==
    IF ws_sender = 0 THEN "no_connection"
    ELSE IF conn_rx[ws_sender] THEN "ok" ELSE "failed"

\* handle_websocket: the channel is made and set_sender stores its sender
WsConnect(c) ==
    /\ conn_pc[c] = "none"
    /\ \A d \in Conns : d < c => conn_pc[d] # "none"
    /\ conn_rx' = [conn_rx EXCEPT ![c] = TRUE]
    /\ ws_sender' = c
    /\ conn_pc' = [conn_pc EXCEPT ![c] = "sender_set"]
    /\ UNCHANGED <<conn_got, send_result, command_queue>>
    /\ UNCHANGED <<taskVars, domainVars, cmdVars>>

\* process_queued_commands drains the queue to the socket; the send task and
\* the receive task are spawned
WsServe(c) ==
    /\ conn_pc[c] = "sender_set"
    /\ command_queue' = 0
    /\ conn_pc' = [conn_pc EXCEPT ![c] = "serving"]
    /\ UNCHANGED <<ws_sender, conn_rx, conn_got, send_result>>
    /\ UNCHANGED <<taskVars, domainVars, cmdVars>>

\* the receive task of connection c gets a command: handle_browser_command
\* answers a blocked URL with send_event, a navigation without consent with
\* send_event and queue_command, and anything else with nothing
WsCommand(c) ==
    /\ conn_pc[c] = "serving"
    /\ \E kind \in {"blocked", "consent", "forward"} :
          /\ kind = "consent" => command_queue < MaxQueued
          /\ send_result' = IF kind = "forward" THEN send_result
                            ELSE [send_result EXCEPT ![c] = send_event]
          /\ conn_got' = IF kind # "forward" /\ send_event = "ok"
                         THEN [conn_got EXCEPT ![ws_sender] = TRUE]
                         ELSE conn_got
          /\ command_queue' = IF kind = "consent" THEN command_queue + 1 ELSE command_queue
    /\ UNCHANGED <<ws_sender, conn_pc, conn_rx>>
    /\ UNCHANGED <<taskVars, domainVars, cmdVars>>

\* select!: the receive task completed (Close frame, socket error or end)
WsRecvEnds(c) ==
    /\ conn_pc[c] = "serving"
    /\ conn_pc' = [conn_pc EXCEPT ![c] = "closing"]
    /\ UNCHANGED <<ws_sender, conn_rx, conn_got, send_result, command_queue>>
    /\ UNCHANGED <<taskVars, domainVars, cmdVars>>

\* select!: the send task completed: it took an event from the channel and
\* the socket refused it; its receiver is dropped
WsSendEnds(c) ==
    /\ conn_pc[c] = "serving"
    /\ conn_got[c]
    /\ conn_rx' = [conn_rx EXCEPT ![c] = FALSE]
    /\ conn_pc' = [conn_pc EXCEPT ![c] = "closing"]
    /\ UNCHANGED <<ws_sender, conn_got, send_result, command_queue>>
    /\ UNCHANGED <<taskVars, domainVars, cmdVars>>

\* clear_sender, then handle_websocket returns and drops its own sender
WsClose(c) ==
    /\ conn_pc[c] = "closing"
    /\ ws_sender' = 0
    /\ conn_rx' = [conn_rx EXCEPT ![c] = FALSE]
    /\ conn_pc' = [conn_pc EXCEPT ![c] = "closed"]
    /\ UNCHANGED <<conn_got, send_result, command_queue>>
    /\ UNCHANGED <<taskVars, domainVars, cmdVars>>

\* ---------------------------------------------------------------- BrowserServer::send_command (rmcp_browser.rs)
\* Command k is the call whose command_id is the k-th UUID the tools made.
\* send_command: the response channel is made and its sender inserted
CmdInsert(k) ==
    /\ cmd_pc[k] = "none"
    /\ response_channels' = response_channels \cup {k}
    /\ cmd_pc' = [cmd_pc EXCEPT ![k] = "inserted"]
    /\ UNCHANGED <<cmd_event, cmd_result>>
    /\ UNCHANGED <<taskVars, domainVars, wsVars>>

\* a `?` of send_command: the error is returned from where it arose
CmdFail(k, error) ==
    /\ cmd_result' = [cmd_result EXCEPT ![k] = error]
    /\ cmd_pc' = [cmd_pc EXCEPT ![k] = "returned"]
    /\ UNCHANGED <<response_channels, cmd_event>>

\* connect_async(&self.ws_url).await
CmdConnect(k) ==
    /\ cmd_pc[k] = "inserted"
    /\ \/ CmdFail(k, "connect_failed")
       \/ /\ cmd_pc' = [cmd_pc EXCEPT ![k] = "connected"]
          /\ UNCHANGED <<response_channels, cmd_event, cmd_result>>
    /\ UNCHANGED <<taskVars, domainVars, wsVars>>

\* serde_json::to_string(&command), write.send(..).await, spawn of read_task
CmdSend(k) ==
    /\ cmd_pc[k] = "connected"
    /\ \/ CmdFail(k, "serialize_failed")
       \/ CmdFail(k, "send_failed")
       \/ /\ cmd_pc' = [cmd_pc EXCEPT ![k] = "waiting"]
          /\ UNCHANGED <<response_channels, cmd_event, cmd_result>>
    /\ UNCHANGED <<taskVars, domainVars, wsVars>>

\* the read_task of call k runs from its spawn to read_task.abort(); a call
\* that returned by timeout never aborts it
ReadTaskAlive(k) == cmd_pc[k] = "waiting" \/ cmd_result[k] = "timeout"

\* read_task of call k reads a CommandResult for command j and passes it to
\* the sender the map holds for j, if any
CmdResponse(k, j) ==
    /\ ReadTaskAlive(k)
    /\ cmd_event' = IF j \in response_channels THEN [cmd_event EXCEPT ![j] = TRUE]
                    ELSE cmd_event
    /\ UNCHANGED <<response_channels, cmd_pc, cmd_result>>
    /\ UNCHANGED <<taskVars, domainVars, wsVars>>

\* rx.recv() yields the result within 30 s: the entry is removed, the
\* read_task aborted, Ok(result) returned
CmdReceive(k) ==
    /\ cmd_pc[k] = "waiting"
    /\ cmd_event[k]
    /\ response_channels' = response_channels \ {k}
    /\ cmd_result' = [cmd_result EXCEPT ![k] = "ok"]
    /\ cmd_pc' = [cmd_pc EXCEPT ![k] = "returned"]
    /\ UNCHANGED cmd_event
    /\ UNCHANGED <<taskVars, domainVars, wsVars>>

\* tokio::time::timeout(30 s, rx.recv()) elapses with nothing received
CmdTimeout(k) ==
    /\ cmd_pc[k] = "waiting"
    /\ ~cmd_event[k]
    /\ CmdFail(k, "timeout")
    /\ UNCHANGED <<taskVars, domainVars, wsVars>>

\* ---------------------------------------------------------------- time
Tick ==
    /\ now < MaxClock
    /\ now' = now + 1
    /\ UNCHANGED <<regVars, orchVars, chanVars, subVars, callVars, browserVars>>

\* ---------------------------------------------------------------- specification
Orchestrator(t) ==
    \/ OrchSetupOk(t)
    \/ OrchSetupFail(t)
    \/ OrchSetupMark(t)
    \/ SelectCancelled(t)
    \/ SelectHeartbeat(t)
    \/ ProducerMessage(t)
    \/ ProducerHistoryReplaced(t)
    \/ ProducerPassthrough(t)
    \/ ProducerError(t)
    \/ ProducerEnd(t)
    \/ ProducerTimeout(t)
    \/ SendResume(t)
    \/ OrchFinish(t)
    \/ OrchMark(t)

Bridge(b) ==
    \/ BridgeLagged(b)
    \/ BridgeEvent(b)
    \/ BridgeClosed(b)
    \/ ClientDisconnect(b)

\* Registry view: any number of replies per session, each orchestrator run to
\* its end, and one subscriber.  The callers of POST /reply have left
\* (stream_event then never waits, and a waiting orchestrator is one that
\* takes no step), and the agent yields chat messages only.
Next ==
    \/ \E s \in Sessions : ReplyAbandoned(s) \/ SubscribeFirst(s) \/ Cancel(s) \/ Cleanup(s)
    \/ \E s \in Sessions : GetTaskStatus(s)
    \/ \E t \in TaskIds :
          \/ OrchSetupOk(t)
          \/ OrchSetupFail(t)
          \/ OrchSetupMark(t)
          \/ SelectCancelled(t)
          \/ ProducerMessage(t)
          \/ ProducerError(t)
          \/ ProducerEnd(t)
          \/ ProducerTimeout(t)
          \/ OrchFinish(t)
          \/ OrchMark(t)
    \/ \E b \in SubIds : Bridge(b)
    \/ Tick

Spec == Init /\ [][Next]_vars

\* Stream view: one reply with its caller attached, every select! branch and
\* every producer event kind, one subscriber, cancel and cleanup.  With a
\* single register no receiver can see Closed: the registered handle keeps a
\* sender, and cleanup does not remove a handle that has a receiver.
NextStream ==
    \/ \E s \in Sessions : ReplyFirst(s) \/ SubscribeFirst(s) \/ Cancel(s) \/ Cleanup(s)
    \/ \E s \in Sessions : GetTaskStatus(s)
    \/ \E t \in TaskIds : Orchestrator(t) \/ CallerRead(t) \/ CallerDisconnect(t)
    \/ \E b \in SubIds : BridgeLagged(b) \/ BridgeEvent(b) \/ ClientDisconnect(b)
    \/ Tick

SpecStream == Init /\ [][NextStream]_vars

\* Fan-out view: one reply, its orchestrator run from start to end with
\* heartbeats, and every subscriber slot in use, the subscribers attaching at
\* any point of the run, lagging and leaving independently.
NextFanout ==
    \/ \E s \in Sessions : ReplyAbandonedFirst(s) \/ Subscribe(s)
    \/ \E t \in TaskIds :
          \/ OrchSetupOk(t)
          \/ SelectHeartbeat(t)
          \/ ProducerMessage(t)
          \/ ProducerEnd(t)
          \/ OrchFinish(t)
          \/ OrchMark(t)
    \/ \E b \in SubIds : BridgeLagged(b) \/ BridgeEvent(b) \/ ClientDisconnect(b)

SpecFanout == Init /\ [][NextFanout]_vars

\* Lifecycle view: any number of replies per session whose producers yield
\* nothing and end, with every call of the registry (register, subscribe,
\* status, cancel, cleanup and the orchestrators' marks) in any order.  A task
\* publishes at most a heartbeat and one terminal event here, which the ring
\* holds, so no receiver falls behind.
NextLifecycle ==
    \/ \E s \in Sessions : ReplyAbandoned(s) \/ SubscribeFirst(s) \/ Cancel(s) \/ Cleanup(s)
    \/ \E s \in Sessions : GetTaskStatus(s)
    \/ \E t \in TaskIds :
          \/ OrchSetupOk(t)
          \/ OrchSetupFail(t)
          \/ OrchSetupMark(t)
          \/ SelectCancelled(t)
          \/ SelectHeartbeat(t)
          \/ ProducerEnd(t)
          \/ ProducerTimeout(t)
          \/ OrchFinish(t)
          \/ OrchMark(t)
    \/ \E b \in SubIds : BridgeEvent(b) \/ BridgeClosed(b) \/ ClientDisconnect(b)
    \/ Tick

SpecLifecycle == Init /\ [][NextLifecycle]_vars

\* Lock view: the methods of the registry called concurrently, each at the
\* grain of its lock acquisition, its clock read and its store.
NextCalls ==
    \/ \E p \in Callers : CallBegin(p) \/ CallAcquire(p) \/ CallBody(p)
    \/ Tick

SpecCalls == Init /\ [][NextCalls]_vars

\* Allowlist view: the pattern match applied to every host and entry.
NextDomains == MatchesDomainPattern

SpecDomains == Init /\ [][NextDomains]_vars

\* Connection view: the /ws/browser connections of several clients.
NextWs ==
    \E c \in Conns :
        \/ WsConnect(c)
        \/ WsServe(c)
        \/ WsCommand(c)
        \/ WsRecvEnds(c)
        \/ WsSendEnds(c)
        \/ WsClose(c)

SpecWs == Init /\ [][NextWs]_vars

\* Command view: several send_command calls of one BrowserServer.
NextCommands ==
    \E k \in Commands :
        \/ CmdInsert(k)
        \/ CmdConnect(k)
        \/ CmdSend(k)
        \/ \E j \in Commands : CmdResponse(k, j)
        \/ CmdReceive(k)
        \/ CmdTimeout(k)

SpecCommands == Init /\ [][NextCommands]_vars

\* ================================================================ properties
NotPing(e) == e.type # "Ping"

Registered(t) == t <= ntasks /\ tasks[session[t]] = t

\* ---------------------------------------------------------------- C1
\* C1: for every session at most one task is in Running status (status
\* Running and its cancellation not requested); a register for a session that
\* has a task leaves the earlier task cancelled before the new task starts.
RunningTasks(s) ==
    {t \in 1..ntasks : session[t] = s /\ status[t] = "Running" /\ ~cancel_token[t]}

AtMostOneRunning == \A s \in Sessions : Cardinality(RunningTasks(s)) <= 1

\* a second task is Running while the first orchestrator is still in its loop
SupersededStillLooping ==
    /\ ntasks = 2
    /\ tasks[1] = 2
    /\ RunningTasks(1) = {2}
    /\ pc[1] = "loop"
    /\ pc[2] = "loop"

\* ---------------------------------------------------------------- C2
\* C2: in what an orchestrator published, in what its broadcast channel
\* holds, in what the caller read and in what every bridge forwarded, no
\* event comes after a Finish.
FinishLast(q) == \A i \in 1..Len(q) : IsFinish(q[i]) => i = Len(q)

FinishIsLastEvent ==
    /\ \A t \in TaskIds : FinishLast(published[t]) /\ FinishLast(ring[t])
    /\ \A t \in TaskIds : caller_open[t] => FinishLast(CallerGot(t))
    /\ \A b \in SubIds : FinishLast(bridge_got[b])

\* an orchestrator has returned after Message, Ping, Finish, and caller and
\* subscriber have both seen the Finish
FinishedAndObserved ==
    \E t \in TaskIds : \E b \in SubIds :
        /\ pc[t] = "done"
        /\ Len(published[t]) >= 3
        /\ IsFinish(published[t][Len(published[t])])
        /\ caller_open[t] /\ CallerGot(t) = published[t]
        /\ rx_task[b] = t
        /\ bridge_got[b] = published[t]

\* ---------------------------------------------------------------- C3
\* C3: once the status of a handle is Completed, Error or Cancelled, no step
\* changes it.
TerminalStatusAbsorbing ==
    [][\A t \in TaskIds : t <= ntasks /\ Terminal(status[t]) => status'[t] = status[t]]_vars

\* ---------------------------------------------------------------- C4
\* C4: a cleanup of an entry that is Running, or that has a subscriber
\* attached, leaves the registry as it is.
CleanupKeepsRunningOrSubscribed ==
    [][\A s \in Sessions :
          (/\ Cleanup(s)
           /\ tasks[s] # 0
           /\ status[tasks[s]] = "Running" \/ receiver_count(tasks[s]) > 0)
          => tasks' = tasks]_vars

\* a finished task with a subscriber attached: cleanup has to refuse
TerminalWithSubscriber ==
    \E s \in Sessions :
        /\ tasks[s] # 0
        /\ Terminal(status[tasks[s]])
        /\ pc[tasks[s]] = "done"
        /\ receiver_count(tasks[s]) > 0

\* ---------------------------------------------------------------- C5
\* C5: cancel on an entry whose status is terminal changes neither status,
\* activity timestamp nor registry contents.
CancelTerminalIsNoop ==
    [][\A s \in Sessions :
          (Cancel(s) /\ tasks[s] # 0 /\ Terminal(status[tasks[s]]))
          => UNCHANGED <<status, last_activity, tasks>>]_vars

\* ---------------------------------------------------------------- C6
\* C6 as claimed: an entry leaves the registry only when its status is
\* terminal and its broadcaster has no subscriber.
RemovedOnlyTerminalUnsubscribed ==
    [][\A s \in Sessions :
          (tasks[s] # 0 /\ tasks'[s] # tasks[s])
          => Terminal(status[tasks[s]]) /\ receiver_count(tasks[s]) = 0]_vars

\* C6 amended: an entry leaves the registry either by cleanup, and then its
\* status is terminal and it has no subscriber, or by a register for the same
\* session, which fires its token and puts the new handle in its place
\* whatever its status and subscribers.
RemovedByCleanupOrRegister ==
    [][\A s \in Sessions :
          (tasks[s] # 0 /\ tasks'[s] # tasks[s])
          => \/ /\ tasks'[s] = 0
                /\ Terminal(status[tasks[s]])
                /\ receiver_count(tasks[s]) = 0
             \/ /\ ntasks' = ntasks + 1
                /\ tasks'[s] = ntasks'
                /\ cancel_token'[tasks[s]]]_vars

\* task 1 was replaced by register, task 2 removed by cleanup
ReplacedThenCleaned ==
    /\ ntasks = 2
    /\ tasks[1] = 0
    /\ cancel_token[1]
    /\ Terminal(status[2])

\* ---------------------------------------------------------------- C7
\* C7: a registered task whose producer yielded n chat messages and ended,
\* with no cancellation, has status Completed once its orchestrator has
\* returned, and a subscriber attached before the first message that took
\* every event sent to it has seen, Pings aside, Message 1..n then
\* Finish "stop".
CleanRun(t) ==
    /\ pc[t] = "done"
    /\ exit_path[t] = "exhausted"
    /\ ~cancel_token[t]
    /\ \A i \in 1..Len(published[t]) : published[t][i].type \in {"Message", "Ping", "Finish"}

ExpectedOfCleanRun(t) ==
    [i \in 1..(pulled[t] + 1) |->
        IF i <= pulled[t] THEN Event("Message", t, i, "") ELSE Event("Finish", t, 0, "stop")]

MessagesSince(b) ==
    Len(SelectSeq(SubSeq(ring[rx_task[b]], rx_start[b] + 1, Len(ring[rx_task[b]])),
                  LAMBDA e : e.type = "Message"))

SawWholeRun(b, t) ==
    /\ rx_task[b] = t
    /\ MessagesSince(b) = pulled[t]
    /\ bridge_pc[b] = "done"
    /\ client_open[b]
    /\ Len(bridge_got[b]) = rx_next[b] - rx_start[b]

CleanRunObservedAndCompleted ==
    \A t \in TaskIds :
        (Registered(t) /\ CleanRun(t))
        => /\ status[t] = "Completed"
           /\ \A b \in SubIds :
                 SawWholeRun(b, t) => SelectSeq(bridge_got[b], NotPing) = ExpectedOfCleanRun(t)

\* ---------------------------------------------------------------- C8
\* C8: a task that left its loop through the cancellation branch after
\* cancel(s), and whose orchestrator has returned, has registry status
\* Cancelled.
CancelledTaskEndsCancelled ==
    \A t \in TaskIds :
        (Registered(t) /\ pc[t] = "done" /\ exit_path[t] = "cancelled")
        => status[t] = "Cancelled"

SecondRegisterTakesOver ==
    [][/\ \A s \in Sessions :
             (ntasks' = ntasks + 1 /\ session'[ntasks'] = s)
             => /\ tasks'[s] = ntasks'
                /\ tasks[s] # 0 => cancel_token'[tasks[s]]
       /\ \A b \in SubIds :
             /\ rx_task'[b] = rx_latest'[b]
             /\ \A i \in 1..Len(bridge_got'[b]) : bridge_got'[b][i].src = rx_latest'[b]]_vars

\* a subscriber of the second task got an event while the first task, whose
\* token is fired, had published too
SubscriberOfSecondTask ==
    \E b \in SubIds :
        /\ rx_latest[b] = 2
        /\ session[1] = session[2]
        /\ Len(bridge_got[b]) > 0
        /\ cancel_token[1]
        /\ Len(published[1]) > 0

\* ---------------------------------------------------------------- C11
\* What the runtime guarantees of a spawned orchestrator: an await that can
\* complete does complete (setup, a pending send, the epilogue), and select!,
\* which picks among its ready branches at random, does not pass over the
\* ready cancellation branch for ever.  Nothing is promised of the producer,
\* the caller or the clients of the registry.
OrchFairness(t) ==
    /\ WF_vars(OrchSetupOk(t) \/ OrchSetupFail(t))
    /\ WF_vars(OrchSetupMark(t))
    /\ SF_vars(SelectCancelled(t))
    /\ WF_vars(SendResume(t))
    /\ WF_vars(OrchFinish(t))
    /\ WF_vars(OrchMark(t))

\* A spawned bridge is polled as well: a recv() that has something to return
\* (an event, Lagged or Closed) returns.
BridgeFairness(b) == WF_vars(BridgeLagged(b) \/ BridgeEvent(b) \/ BridgeClosed(b))

Fairness ==
    /\ \A t \in TaskIds : OrchFairness(t)
    /\ \A b \in SubIds : BridgeFairness(b)

FairSpec == Spec /\ Fairness

FairStream == SpecStream /\ Fairness

FairLifecycle == SpecLifecycle /\ Fairness

HasFinish(q) == \E i \in 1..Len(q) : IsFinish(q[i])

\* C11: once the token of a task that has not returned is fired, the
\* orchestrator eventually has published Finish and returned.
CancelLeadsToFinishAndExit ==
    \A t \in TaskIds :
        (cancel_token[t] /\ pc[t] \notin {"none", "done"})
        ~> (pc[t] = "done" /\ HasFinish(published[t]))

\* ---------------------------------------------------------------- C12
\* the status the orchestrator's own mark stores, by the way it left
ExpectedStatus(t) == IF exit_path[t] \in {"setup", "error"} THEN "Error" ELSE "Completed"

\* events of q that lie after its first k
After(q, k) == SubSeq(q, k + 1, Len(q))

\* C12: whether or not the caller of POST /reply is still there, a pending
\* send to a closed private channel completes, every event published while a
\* receiver is attached is in the broadcast channel, and an uncancelled task
\* whose orchestrator has returned has the status that follows from the way
\* it left the loop.
CallerLeftNotTerminal ==
    \A t \in TaskIds :
        /\ (Sending(t) /\ ~caller_open[t]) => ENABLED SendResume(t)
        /\ \A b \in SubIds :
              (rx_task[b] = t /\ bridge_pc[b] = "recv")
              => After(ring[t], rx_start[b]) = After(published[t], sub_point[b])
        /\ (pc[t] = "done" /\ ~cancel_token[t]) => status[t] = ExpectedStatus(t)

\* the caller left in mid-run; the orchestrator went on, a subscriber got an
\* event published after that, and the task completed
WentOnAfterCallerLeft ==
    \E t \in TaskIds : \E b \in SubIds :
        /\ ~caller_open[t]
        /\ caller_left[t] > 0
        /\ Len(published[t]) > caller_left[t] + 1
        /\ rx_task[b] = t
        /\ \E i \in 1..Len(bridge_got[b]) :
              bridge_got[b][i] = published[t][caller_left[t] + 1]
        /\ pc[t] = "done"
        /\ status[t] = "Completed"

\* ---------------------------------------------------------------- C13
\* bridge b subscribed to a registered handle whose status was terminal and
\* whose orchestrator has returned
LateAttach(b) ==
    /\ rx_task[b] # 0
    /\ sub_late[b]
    /\ pc[rx_task[b]] = "done"

\* C13: a bridge attached to a finished task that is still registered
\* eventually leaves its loop.
LateSubscriberTerminates ==
    \A b \in SubIds : (bridge_pc[b] = "recv" /\ LateAttach(b)) ~> (bridge_pc[b] = "done")

\* ---------------------------------------------------------------- C14
\* C14: every event a bridge got from its receiver was published after the
\* subscribe call that made the receiver had returned.
PositionedAtNow ==
    \A b \in SubIds :
        \A i \in 1..Len(bridge_got[b]) :
            \E j \in (sub_point[b] + 1)..Len(published[rx_task[b]]) :
                published[rx_task[b]][j] = bridge_got[b][i]

\* a receiver made while the channel already held events for an earlier
\* receiver has delivered an event
LateJoinerGotEvent ==
    \E b \in SubIds :
        /\ rx_start[b] > 0
        /\ Len(bridge_got[b]) > 0

\* ---------------------------------------------------------------- C15
\* position of event e in q (the events of one task are pairwise different)
Pos(q, e) == CHOOSE j \in 1..Len(q) : q[j] = e

\* g is made of events of q, in the order they have in q
IsSubsequence(g, q) ==
    /\ \A i \in 1..Len(g) : \E j \in 1..Len(q) : q[j] = g[i]
    /\ \A i, k \in 1..Len(g) : i < k => Pos(q, g[i]) < Pos(q, g[k])

\* C15: what each bridge forwarded is a subsequence of what the orchestrator
\* of its task published, in publication order, however many subscribers are
\* attached.
SubscriberFifo ==
    \A b \in SubIds :
        rx_task[b] # 0 => IsSubsequence(bridge_got[b], published[rx_task[b]])

\* two subscribers of one task have each forwarded several events, and not
\* the same ones
TwoSubscribersDiffer ==
    \E b, c \in SubIds :
        /\ b # c
        /\ rx_task[b] # 0
        /\ rx_task[b] = rx_task[c]
        /\ Len(bridge_got[b]) >= 2
        /\ Len(bridge_got[c]) >= 2
        /\ bridge_got[b] # bridge_got[c]

\* ---------------------------------------------------------------- C16
\* q ends with one Error event, or with one Error and then one Finish, and
\* holds no other Error or Finish
EndsWithErrorThenFinish(q) ==
    \E k \in 1..Len(q) :
        /\ q[k].type = "Error"
        /\ \A i \in 1..(k - 1) : q[i].type \notin {"Error", "Finish"}
        /\ k = Len(q) \/ (k + 1 = Len(q) /\ IsFinish(q[k + 1]))

\* C16: after a producer error the orchestrator has published one Error and
\* after it nothing but one Finish, the failed item is the last one it
\* pulled, it has published the Finish by the time it returns, and its final
\* mark leaves the session's registry entry with status Error.
ProducerErrorTerminal ==
    /\ [](\A t \in TaskIds :
             exit_path[t] = "error"
             => /\ EndsWithErrorThenFinish(published[t])
                /\ \E i \in 1..Len(published[t]) :
                      published[t][i].type = "Error" /\ published[t][i].n = pulled[t]
                /\ pc[t] = "done" => IsFinish(published[t][Len(published[t])]))
    /\ [][\A t \in TaskIds :
             (exit_path[t] = "error" /\ pc[t] = "mark" /\ pc'[t] = "done")
             => (tasks[session[t]] # 0 => status'[tasks[session[t]]] = "Error")]_vars

\* the first producer item was an error: Error and Finish reached a
\* subscriber, nothing more was pulled, the status is Error
FailedAtFirstItem ==
    \E t \in TaskIds : \E b \in SubIds :
        /\ exit_path[t] = "error"
        /\ pc[t] = "done"
        /\ pulled[t] = 1
        /\ Registered(t)
        /\ status[t] = "Error"
        /\ rx_task[b] = t
        /\ Len(bridge_got[b]) >= 2
        /\ bridge_got[b][Len(bridge_got[b]) - 1].type = "Error"
        /\ IsFinish(bridge_got[b][Len(bridge_got[b])])

\* ---------------------------------------------------------------- C17
\* C17: an orchestrator that failed in setup has published one Error event
\* and nothing else, has pulled nothing from the producer, and its mark
\* leaves the handle of its own task with status Error.
SetupFailureMarksTask ==
    /\ [](\A t \in TaskIds :
             exit_path[t] = "setup"
             => /\ Len(published[t]) = 1
                /\ published[t][1].type = "Error"
                /\ pulled[t] = 0)
    /\ [][\A t \in TaskIds :
             (exit_path[t] = "setup" /\ pc[t] = "setup_mark" /\ pc'[t] = "done")
             => status'[t] = "Error"]_vars

\* ---------------------------------------------------------------- C18
\* C18: an orchestrator that has made its final mark and returned, by
\* whichever path, had passed a Finish event to stream_event (private
\* channel and broadcaster) before.
FinishOnEveryExitPath ==
    \A t \in TaskIds : pc[t] = "done" => HasFinish(published[t])

\* ---------------------------------------------------------------- C19
\* C19: the step in which a bridge finds its client gone and leaves changes
\* nothing of the registry (status, token, activity), of the orchestrators
\* (position, items pulled), of what was published and what the broadcast
\* channel holds, nor anything of the other bridges.
TransportFailureLocal ==
    [][\A b \in SubIds :
          (bridge_pc[b] = "recv" /\ ~client_open[b] /\ bridge_pc'[b] = "done")
          => /\ UNCHANGED <<regVars, orchVars, published, ring>>
             /\ \A c \in SubIds \ {b} :
                   UNCHANGED <<rx_task[c], rx_next[c], bridge_pc[c], bridge_got[c],
                               client_open[c]>>]_vars

\* one bridge left because its client was gone; the other subscriber of the
\* task went on to the Finish, and the task completed
OtherSubscriberUnaffected ==
    \E b, c \in SubIds :
        /\ b # c
        /\ bridge_pc[b] = "done" /\ ~client_open[b]
        /\ rx_task[c] = rx_task[b]
        /\ client_open[c]
        /\ Len(bridge_got[c]) > Len(bridge_got[b]) + 1
        /\ IsFinish(bridge_got[c][Len(bridge_got[c])])
        /\ pc[rx_task[b]] = "done"
        /\ status[rx_task[b]] = "Completed"

\* ---------------------------------------------------------------- C20
\* C20: while a session has no registry entry, get_status is None and both
\* routes answer 404, a subscribe or a status request changes nothing (no
\* bridge is spawned, no entry made), and an entry appears only through a
\* reply, which spawns its orchestrator.
UnknownSessionNotFound ==
    [][\A s \in Sessions :
          tasks[s] = 0
          => /\ get_status(s) = <<>>
             /\ get_task_status(s) = 404
             /\ subscribe_to_session(s) = 404
             /\ (Subscribe(s) \/ GetTaskStatus(s)) => UNCHANGED vars
             /\ tasks'[s] # 0 => (ntasks' = ntasks + 1 /\ pc'[tasks'[s]] = "setup")]_vars

\* a session that had a task has no entry any more, and no bridge exists
EntryGoneNoBridge ==
    \E s \in Sessions :
        /\ tasks[s] = 0
        /\ \E t \in 1..ntasks : session[t] = s /\ pc[t] = "done"
        /\ \A b \in SubIds : bridge_pc[b] = "none"

\* ---------------------------------------------------------------- C21
\* C21: cancel(s) returns true exactly when s has an entry; after a call that
\* returned true the token of that entry is fired and its status is
\* Cancelled; a call that returned false changed nothing; and a fired token
\* is never reset.
CancelReturnsFound ==
    [][/\ \A s \in Sessions :
             /\ cancel_task_returns(s) <=> get_status(s) # <<>>
             /\ (Cancel(s) /\ cancel_task_returns(s))
                => /\ cancel_token'[tasks[s]]
                   /\ status'[tasks[s]] = "Cancelled"
                   /\ get_status(s)'[1].status = "Cancelled"
             /\ (Cancel(s) /\ ~cancel_task_returns(s)) => UNCHANGED vars
       /\ \A t \in TaskIds : cancel_token[t] => cancel_token'[t]]_vars

\* cancel found a task whose orchestrator is in its loop
CancelledWhileLooping ==
    \E s \in Sessions :
        /\ tasks[s] # 0
        /\ status[tasks[s]] = "Cancelled"
        /\ cancel_token[tasks[s]]
        /\ pc[tasks[s]] = "loop"

\* ---------------------------------------------------------------- C22
\* C22: the orchestrator's mark (mark_error after a failure, else
\* mark_completed) on a session that has an entry stores Error resp.
\* Completed and the current time in that entry and writes nothing else; on
\* a session without an entry it changes nothing of the registry.
MarkSetsStatusAndActivity ==
    [][\A t \in TaskIds :
          (pc[t] \in {"mark", "setup_mark"} /\ pc'[t] = "done")
          => LET h == tasks[session[t]]
                 v == IF pc[t] = "mark" /\ ~task_error[t] THEN "Completed" ELSE "Error"
             IN  IF h # 0
                 THEN /\ status' = [status EXCEPT ![h] = v]
                      /\ last_activity' = [last_activity EXCEPT ![h] = now]
                      /\ UNCHANGED <<tasks, ntasks, session, cancel_token>>
                 ELSE UNCHANGED regVars]_vars

\* a mark stored Completed and a later time than the one of registration
MarkedLater ==
    \E t \in TaskIds :
        /\ Registered(t)
        /\ pc[t] = "done"
        /\ status[t] = "Completed"
        /\ last_activity[t] > 0

\* ---------------------------------------------------------------- C23
\* C23: the snapshot get_status returns shows the status and the activity
\* timestamp of the session's entry, and has_subscribers exactly when a
\* bridge subscribed to that entry still holds its receiver; and a status
\* request changes nothing.
StatusIsReadOnlyProjection ==
    /\ [](\A s \in Sessions :
             tasks[s] # 0
             => /\ get_status(s)[1].status = status[tasks[s]]
                /\ get_status(s)[1].last_activity_ms = last_activity[tasks[s]]
                /\ get_status(s)[1].has_subscribers
                   <=> \E b \in SubIds : rx_task[b] = tasks[s] /\ bridge_pc[b] = "recv")
    /\ [][\A s \in Sessions : GetTaskStatus(s) => UNCHANGED vars]_vars

\* the one subscriber of a registered task has left
SubscriberDetached ==
    \E s \in Sessions : \E b \in SubIds :
        /\ tasks[s] # 0
        /\ rx_task[b] = tasks[s]
        /\ bridge_pc[b] = "done"
        /\ ~get_status(s)[1].has_subscribers

\* ---------------------------------------------------------------- C24
\* C24: every registered handle whose status is terminal and that has no
\* receiver attached is eventually out of the registry.
EventuallyReaped ==
    \A t \in TaskIds :
        (Registered(t) /\ Terminal(status[t]) /\ receiver_count(t) = 0) ~> ~Registered(t)

\* ---------------------------------------------------------------- C25
\* that many events are in the channel of its task beyond what receiver b
\* has taken
Backlog(b) == Len(ring[rx_task[b]]) - rx_next[b]

\* C25: with the caller of POST /reply out of the way, no publish leaves the
\* orchestrator waiting, whatever the number of receivers and their
\* backlogs: it is never inside a send, and the Finish and the final mark
\* can be taken as soon as it has left its loop.
SubscribersNeverHoldBack ==
    \A t \in TaskIds :
        ~caller_open[t]
        => /\ pc[t] \notin {"send_loop", "send_post", "send_mark", "send_setup_mark"}
           /\ pc[t] = "post" => ENABLED OrchFinish(t)
           /\ pc[t] = "mark" => ENABLED OrchMark(t)

\* a subscriber that never took an event overflowed its backlog, and the
\* task published everything and completed all the same
OverflowedAndCompleted ==
    \E t \in TaskIds : \E b \in SubIds :
        /\ pc[t] = "done"
        /\ status[t] = "Completed"
        /\ Len(published[t]) = MaxEvents + MaxPings + 1
        /\ rx_task[b] = t
        /\ bridge_pc[b] = "recv"
        /\ rx_next[b] = rx_start[b]
        /\ Backlog(b) > BroadcastCapacity

\* ---------------------------------------------------------------- C26
\* C26: a bridge that is attached to a task whose orchestrator has returned
\* eventually leaves its loop.
BridgeEndsAfterOrchestrator ==
    \A b \in SubIds :
        (bridge_pc[b] = "recv" /\ pc[rx_task[b]] = "done") ~> (bridge_pc[b] = "done")

\* ---------------------------------------------------------------- C27
\* C27: an orchestrator at the top of its loop whose token is fired publishes
\* nothing in that iteration.
CancellationHasPriority ==
    [][\A t \in TaskIds :
          (pc[t] = "loop" /\ cancel_token[t]) => published'[t] = published[t]]_vars

\* ---------------------------------------------------------------- C28
\* C28: an orchestrator that is inside a send to the private channel
\* eventually is not, whatever the caller does; and one whose token is fired
\* while it is in its loop, or in a send made from it, eventually has
\* published Finish.
EmitAlwaysCompletes ==
    \A t \in TaskIds :
        /\ Sending(t) ~> ~Sending(t)
        /\ (cancel_token[t] /\ pc[t] \in {"loop", "send_loop"}) ~> HasFinish(published[t])

\* ---------------------------------------------------------------- C29
\* C29: a step of the orchestrator of a task that was replaced in the
\* registry changes neither the status nor the activity timestamp of the
\* handle that replaced it.
SupersededCannotAlter ==
    [][\A t \in TaskIds :
          LET h == tasks[session[t]]
          IN  (/\ t <= ntasks
               /\ h \notin {0, t}
               /\ pc'[t] # pc[t] \/ published'[t] # published[t])
              => /\ status'[h] = status[h]
                 /\ last_activity'[h] = last_activity[h]]_vars

\* ---------------------------------------------------------------- C30
\* C30: a step that takes an orchestrator out of its loop is the
\* cancellation branch with the token fired, the producer's error (Error
\* published, task_error set) or the producer's end; a timeout of the
\* bounded wait changes nothing (status, position and published events
\* included), so the orchestrator is in its loop again.
LoopEndsOnlyThreeWays ==
    [][\A t \in TaskIds :
             /\ (pc[t] \in {"loop", "send_loop"} /\ pc'[t] \notin {"loop", "send_loop"})
                => \/ /\ exit_path'[t] = "cancelled"
                      /\ cancel_token[t]
                      /\ published'[t] = published[t]
                   \/ /\ exit_path'[t] = "error"
                      /\ task_error'[t]
                      /\ published'[t][Len(published'[t])].type = "Error"
                   \/ /\ exit_path'[t] = "exhausted"
                      /\ published'[t] = published[t]
             /\ ProducerTimeout(t) => UNCHANGED vars]_vars

\* time has passed and the heartbeat has ticked without the producer
\* yielding anything; the task is in its loop and Running
WaitingOnSilentProducer ==
    \E t \in TaskIds :
        /\ pc[t] = "loop"
        /\ status[t] = "Running"
        /\ pulled[t] = 0
        /\ pings[t] = MaxPings
        /\ now = MaxClock
        /\ \A i \in 1..Len(published[t]) : published[t][i].type = "Ping"

\* ---------------------------------------------------------------- C31
\* events that reached receiver b's position without being handed to it
Skipped(b) == rx_next[b] - rx_start[b] - Len(bridge_got[b])

\* C31: a lagged signal leaves the bridge receiving, forwards nothing,
\* moves the receiver to the oldest event the channel still holds and
\* touches neither the status nor the token of any task; and a bridge whose
\* client stayed ends only on the Finish it forwarded (or on a closed
\* channel), whether it lagged or not.
LagRecoveredLocally ==
    /\ [][\A b \in SubIds :
             BridgeLagged(b)
             => /\ bridge_pc'[b] = "recv"
                /\ rx_task'[b] = rx_task[b]
                /\ bridge_got' = bridge_got
                /\ rx_next'[b] = Len(ring[rx_task[b]]) - BroadcastCapacity
                /\ status' = status
                /\ cancel_token' = cancel_token]_vars
    /\ [](\A b \in SubIds :
             (bridge_pc[b] = "done" /\ client_open[b])
             => \/ /\ bridge_got[b] # <<>>
                   /\ bridge_got[b][Len(bridge_got[b])] = FinishEvent(rx_task[b])
                \/ sender_count(rx_task[b]) = 0)

\* a bridge that lost events to lag went on, forwarded a later event and
\* the Finish, and the task completed
LaggedThenSawFinish ==
    \E b \in SubIds :
        /\ bridge_pc[b] = "done"
        /\ client_open[b]
        /\ Skipped(b) > 0
        /\ Len(bridge_got[b]) >= 2
        /\ IsFinish(bridge_got[b][Len(bridge_got[b])])
        /\ status[rx_task[b]] = "Completed"

\* ---------------------------------------------------------------- C32
\* recv of bridge b returns an event in this step (not a lagged signal)
Receives(b) ==
    /\ bridge_pc[b] = "recv"
    /\ rx_next[b] >= Len(ring[rx_task[b]]) - BroadcastCapacity
    /\ rx_next'[b] = rx_next[b] + 1

\* C32: the event a bridge receives while its client accepts is appended
\* to what the client got, Finish included; the bridge is done after that
\* step exactly when the event was Finish; and a bridge that is done
\* forwards nothing more.
ForwardsBeforeActing ==
    [][\A b \in SubIds :
          LET e == ring[rx_task[b]][rx_next[b] + 1]
          IN  /\ (Receives(b) /\ client_open[b])
                 => /\ bridge_got'[b] = Append(bridge_got[b], e)
                    /\ bridge_pc'[b] = IF IsFinish(e) THEN "done" ELSE "recv"
              /\ bridge_pc[b] = "done"
                 => /\ bridge_got'[b] = bridge_got[b]
                    /\ bridge_pc'[b] = "done"]_vars

\* a client that got every event since it attached, without a gap: an
\* event that kept the bridge attached and then the Finish that ended it
ForwardedThenFinish ==
    \E b \in SubIds :
        /\ bridge_pc[b] = "done"
        /\ client_open[b]
        /\ Skipped(b) = 0
        /\ Len(bridge_got[b]) >= 2
        /\ ~IsFinish(bridge_got[b][1])
        /\ IsFinish(bridge_got[b][Len(bridge_got[b])])

\* ---------------------------------------------------------------- C33
\* the protocol events the four kinds of producer event are translated to
ProducerKinds == {"Message", "UpdateConversation", "ModelChange", "Notification"}

\* C33: a step in which an orchestrator takes a producer item publishes
\* exactly one event, and when that event is one of the four translated
\* kinds and the task is still registered its activity timestamp is the
\* clock's value after the step.
ProducerEventRefreshesActivity ==
    [][\A t \in TaskIds :
          pulled'[t] = pulled[t] + 1
          => /\ Len(published'[t]) = Len(published[t]) + 1
             /\ SubSeq(published'[t], 1, Len(published[t])) = published[t]
             /\ (/\ published'[t][Len(published'[t])].type \in ProducerKinds
                 /\ tasks[session[t]] = t)
                => last_activity'[t] = now]_vars

\* ---------------------------------------------------------------- C34
\* C34: a step in which orchestrator t takes a heartbeat tick publishes one
\* Ping, to the broadcast channel when it has a receiver and to the caller's
\* channel when the caller is connected (at once or as a pending send);
\* sets the activity timestamp of t's handle to the clock's value; and
\* changes no status, no token, no registration, no other handle's
\* timestamp and nothing of t's producer position, error flag or exit path.
HeartbeatFrame ==
    [][\A t \in TaskIds :
          pings'[t] = pings[t] + 1
          => LET ping == Event("Ping", t, pings'[t], "")
             IN  /\ published'[t] = Append(published[t], ping)
                 /\ receiver_count(t) > 0 => ring'[t] = Append(ring[t], ping)
                 /\ caller_open[t]
                    => \/ queued'[t] = queued[t] + 1 /\ pc'[t] = "loop"
                       \/ queued'[t] = queued[t] /\ pc'[t] = "send_loop"
                 /\ last_activity'[t] = now
                 /\ \A u \in TaskIds \ {t} : last_activity'[u] = last_activity[u]
                 /\ status' = status
                 /\ cancel_token' = cancel_token
                 /\ tasks' = tasks
                 /\ pulled' = pulled
                 /\ task_error' = task_error
                 /\ exit_path' = exit_path]_vars

\* ---------------------------------------------------------------- C35
IsPrefix(p, q) == Len(p) <= Len(q) /\ SubSeq(q, 1, Len(p)) = p

\* bridge b attached before its task emitted anything, lost nothing to lag,
\* and both its client and the caller of POST /reply are still connected
FromTheStart(b) ==
    /\ bridge_pc[b] # "none"
    /\ sub_point[b] = 0
    /\ Skipped(b) = 0
    /\ client_open[b]
    /\ caller_open[rx_task[b]]

\* C35: for a subscriber attached before the first event and never lagging,
\* and a connected caller, what the one has observed is a prefix of what the
\* other has observed, and once both have taken everything emitted so far
\* both have observed exactly the sequence of emitted events.
DualEmission ==
    \A b \in SubIds :
        LET t == rx_task[b]
        IN  FromTheStart(b)
            => /\ IsPrefix(bridge_got[b], CallerGot(t)) \/ IsPrefix(CallerGot(t), bridge_got[b])
               /\ IsPrefix(bridge_got[b], published[t])
               /\ (rx_next[b] = Len(ring[t]) /\ queued[t] = 0 /\ ~Sending(t))
                  => /\ bridge_got[b] = published[t]
                     /\ CallerGot(t) = published[t]

\* caller and subscriber have both observed a whole run of several events
\* that ended with Finish
BothSawWholeRun ==
    \E b \in SubIds :
        /\ FromTheStart(b)
        /\ pc[rx_task[b]] = "done"
        /\ bridge_pc[b] = "done"
        /\ queued[rx_task[b]] = 0
        /\ Len(published[rx_task[b]]) >= 3
        /\ bridge_got[b] = CallerGot(rx_task[b])

\* ---------------------------------------------------------------- C36
\* C36: no step lowers the last-activity timestamp stored in a handle.
ActivityNeverDecreases ==
    [][\A t \in TaskIds : last_activity'[t] >= last_activity[t]]_vars

\* ---------------------------------------------------------------- C37
Holds(p) == call_pc[p] \in {"held", "clock"}

\* C37: a caller that holds the lock can always take its next step (it
\* waits on nothing) and that step is the clock read or the return, the
\* step after a clock read the return; the write guard excludes every other
\* guard; and whenever a caller waits for the lock, either it can have it or
\* a holder can move on.
LockNeverHeldAcrossWait ==
    /\ [](\A p \in Callers :
             /\ Holds(p) => ENABLED CallBody(p)
             /\ call_pc[p] = "wait"
                => \/ ENABLED CallAcquire(p)
                   \/ \E q \in Callers : Holds(q) /\ ENABLED CallBody(q))
    /\ [](WriteHeld # {} => Cardinality(WriteHeld) = 1 /\ ReadHeld = {})
    /\ [][\A p \in Callers :
             /\ (call_pc[p] = "held" /\ call_pc'[p] # "held")
                => call_pc'[p] \in {"clock", "idle"}
             /\ (call_pc[p] = "clock" /\ call_pc'[p] # "clock")
                => call_pc'[p] = "idle"]_vars

\* a caller between its clock read and its store holds a read guard on a
\* registered task while another caller waits for the write guard
WriterWaitsForReader ==
    \E p, q \in Callers :
        /\ call_pc[p] = "clock"
        /\ call_pc[q] = "wait"
        /\ call_op[q] \in WriteOps
        /\ tasks[call_session[q]] # 0

\* ---------------------------------------------------------------- C38
\* C38: the match returns TRUE exactly when the pattern equals the host, or
\* the pattern is "*." followed by D and the host is D or ends with "."
\* followed by D.
DomainMatchIsExact ==
    url_pattern # <<>>
    => (url_match
        <=> \/ url_pattern = url_host
            \/ /\ starts_with(url_pattern, <<"*", ".">>)
               /\ LET D == SubSeq(url_pattern, 3, Len(url_pattern))
                  IN  url_host = D \/ ends_with(url_host, <<".">> \o D))

\* ---------------------------------------------------------------- C39
\* the connection that called set_sender last
LastConnected == CHOOSE c \in Conns : conn_pc[c] # "none" /\ \A d \in Conns : d > c => conn_pc[d] = "none"

Established(c) == conn_pc[c] \in {"sender_set", "serving"}

\* C39: while the connection that stored its sender last is established,
\* send_event succeeds; and a connection that closes sets the stored sender
\* to None when it is its own and leaves it alone otherwise.
SenderLiveWhileConnected ==
    /\ []((conn_pc[1] # "none" /\ Established(LastConnected)) => send_event = "ok")
    /\ [][\A c \in Conns :
             (conn_pc[c] = "closing" /\ conn_pc'[c] = "closed")
             => ws_sender' = IF ws_sender = c THEN 0 ELSE ws_sender]_vars

\* ---------------------------------------------------------------- C40
\* C40: once a send_command call has returned, whatever it returned, the
\* map holds no entry for its command_id.
NoEntryAfterReturn ==
    \A k \in Commands : cmd_pc[k] = "returned" => k \notin response_channels

====
